---- MODULE Spec2Model ----
(***************************************************************************)
(* Welcome-seeding protocol of offline_chatbot_programs_modern_ui.py:      *)
(* the seed resolver (_resolve_seed_from_args_env), the constructor of     *)
(* ProgramsModernUI, the overlay dismissal hook (_hide_frontpage), the     *)
(* readiness check (_try_fire_welcome_seed), and the seeding functions     *)
(* _start_seeding / _seed_worker with their UI-thread callbacks.           *)
(*                                                                         *)
(* Strings are sequences of chunks (a chunk is a character, or a fixed     *)
(* literal of the source kept whole).  Optional[str] is a record           *)
(* [some, val].  The Tk timer queue (self.after) is a sequence of          *)
(* [rem, cb, arg] ordered by due time, then by insertion.                  *)
(*                                                                         *)
(* Name resolution of self._start_seeding (line 343): the source defines   *)
(* _start_seeding and _seed_worker at lines 444-478 with the indentation   *)
(* of the body of _skin_legacy_chat_widgets, i.e. as local functions of    *)
(* that method, not as methods of ProgramsModernUI.  Whether the call on   *)
(* line 343 finds a method therefore depends on the class the file builds  *)
(* on; hasStartSeeding is the nondeterministic outcome of that lookup,     *)
(* fixed for a run: FALSE, the call raises AttributeError; TRUE, a method  *)
(* with the body of lines 444-457 runs.                                    *)
(***************************************************************************)
EXTENDS Integers, Sequences, FiniteSets, TLC

VARIABLES
    args,            \* parsed command line: skip_seed, seed_prompt, seed_file, seed_env, show_seed, seed_delay
    fs,              \* the file named by --seed-file: [exists, readable, contents]
    env,             \* os.environ restricted to the two variables the resolver may read
    hasStartSeeding, \* outcome of the attribute lookup self._start_seeding
    pc,              \* "main" before the constructor has run, "mainloop" afterwards
    resolved,        \* value returned by _resolve_seed_from_args_env
    seed_text,       \* self._seed_text
    seed_delay_ms,   \* self._seed_delay_ms
    show_seed,       \* self._show_seed
    pending,         \* self._pending_welcome_seed (getattr default False)
    frontpage,       \* the overlay widget self._frontpage: "mounted", "unmounted", "destroyed"
    streaming,       \* self.streaming, shared with normal chat generation
    send_enabled,    \* state of self.send_btn: TRUE "normal", FALSE "disabled"
    transcript,      \* what self._append has written: sequence of [text, tag]
    afterQ,          \* callbacks scheduled with self.after, in firing order
    worker,          \* the seed worker thread: [pc, text, n]
    chat,            \* a normal chat generation of the base class is in flight
    hist             \* history: counters of the steps the properties speak about

vars == <<args, fs, env, hasStartSeeding, pc, resolved, seed_text, seed_delay_ms,
          show_seed, pending, frontpage, streaming, send_enabled, transcript,
          afterQ, worker, chat, hist>>

inputs == <<args, fs, env, hasStartSeeding>>
config == <<seed_text, seed_delay_ms, show_seed>>

----------------------------------------------------------------------------
(* Bounds of the model *)

\* most tokens the backend produces in one generation
MaxTokens == 2
\* most calls of _hide_frontpage in one run
MaxHides == 2

----------------------------------------------------------------------------
(* Strings and optional values *)

None == [some |-> FALSE, val |-> <<>>]
Some(s) == [some |-> TRUE, val |-> s]

\* Python truthiness of an Optional[str]: None and "" are falsy
Truthy(o) == o.some /\ o.val # <<>>

Whitespace == {" ", "\n", "\t"}

RECURSIVE LStrip(_)
LStrip(s) == IF s # <<>> /\ Head(s) \in Whitespace THEN LStrip(Tail(s)) ELSE s

RECURSIVE RStrip(_)
RStrip(s) ==
    IF s # <<>> /\ s[Len(s)] \in Whitespace THEN RStrip(SubSeq(s, 1, Len(s) - 1)) ELSE s

\* str.strip()
Strip(s) == RStrip(LStrip(s))

\* (seed_text or "")
OrEmpty(o) == IF Truthy(o) THEN o.val ELSE <<>>

DefaultEnvName == <<"CHATBOT_SEED_PROMPT">>
CustomEnvName == <<"MY_VAR">>
EnvNames == {DefaultEnvName, CustomEnvName}

----------------------------------------------------------------------------
(* Seed resolver *)

\* os.getenv(name): None when the variable is unset
GetEnv(e, name) == e[name]

\* getattr(args, "seed_env", None) or "CHATBOT_SEED_PROMPT"
EnvNameOf(a) == IF Truthy(a.seed_env) THEN a.seed_env.val ELSE DefaultEnvName

\* mutant: a custom variable that is unset or empty falls back to the default one
ResolveFromEnvFallback(a, e) ==
    IF Truthy(GetEnv(e, EnvNameOf(a))) THEN GetEnv(e, EnvNameOf(a))
    ELSE IF Truthy(GetEnv(e, DefaultEnvName)) THEN GetEnv(e, DefaultEnvName)
    ELSE None

\* lines 504-509: the environment step of the chain
ResolveFromEnv(a, e) ==
    LET env_val == GetEnv(e, EnvNameOf(a))
    IN  IF Truthy(env_val) THEN env_val ELSE None

\* Path(args.seed_file).exists()
PathExists(f) == f.exists

\* p.read_text(encoding="utf-8") raises (undecodable bytes, a directory, no permission)
ReadRaises(f) == ~f.readable

\* lines 496-503: the file step; "fall" is falling through to the environment step
\* (file missing, or the read raised and the exception was logged)
ResolveFromFile(a, f) ==
    IF Truthy(a.seed_file) /\ PathExists(f) /\ ~ReadRaises(f)
    THEN [ret |-> TRUE, val |-> Some(f.contents)]
    ELSE [ret |-> FALSE, val |-> None]

\* logger.exception("Failed to read seed file") on line 503 is reached
ReadErrorLogged(a, f) == Truthy(a.seed_file) /\ PathExists(f) /\ ReadRaises(f)

\* mutants of the resolver: the disable flag ignored; the environment consulted
\* before the file; a missing seed file ending the chain
ResolveSeedNoSkip(a, f, e) ==
    IF Truthy(a.seed_prompt) THEN a.seed_prompt
    ELSE IF ResolveFromFile(a, f).ret THEN ResolveFromFile(a, f).val
    ELSE ResolveFromEnv(a, e)

ResolveSeedEnvFirst(a, f, e) ==
    IF a.skip_seed THEN None
    ELSE IF Truthy(a.seed_prompt) THEN a.seed_prompt
    ELSE IF Truthy(ResolveFromEnv(a, e)) THEN ResolveFromEnv(a, e)
    ELSE IF ResolveFromFile(a, f).ret THEN ResolveFromFile(a, f).val
    ELSE None

ResolveSeedMissingFileStops(a, f, e) ==
    IF a.skip_seed THEN None
    ELSE IF Truthy(a.seed_prompt) THEN a.seed_prompt
    ELSE IF ResolveFromFile(a, f).ret THEN ResolveFromFile(a, f).val
    ELSE IF Truthy(a.seed_file) /\ ~PathExists(f) THEN None
    ELSE ResolveFromEnv(a, e)

\* _resolve_seed_from_args_env(args)
ResolveSeed(a, f, e) ==
    IF a.skip_seed THEN None
    ELSE IF Truthy(a.seed_prompt) THEN a.seed_prompt
    ELSE IF ResolveFromFile(a, f).ret THEN ResolveFromFile(a, f).val
    ELSE ResolveFromEnv(a, e)

----------------------------------------------------------------------------
(* Literals of the source appended to the transcript *)

BannerShown == <<"-- Welcome seeding enabled (showing configured seed): --\n">>
BannerPlain == <<"-- Welcome seeding enabled. --\n">>
BannerTip == <<"-- Tip: launch with --seed-prompt ... --\n">>
BotMarker == <<"B", "o", "t", ":", " ">>
ErrorNotice == <<"\n", "[Error: failed to generate welcome message]", "\n">>
Newline == <<"\n">>

Entry(text, tag) == [text |-> text, tag |-> tag]

\* the i-th token the backend produces
Token(i) == [j \in 1..i |-> "x"]

----------------------------------------------------------------------------
(* Tk timer queue *)

BackoffMs == 300
FallbackDelayMs == 250
SkinDelayMs == 200

Timer(ms, cb, arg) == [rem |-> ms, cb |-> cb, arg |-> arg]

\* self.after(ms, cb, arg): queued behind every callback due no later
After(q, ms, cb, arg) ==
    LET k == Cardinality({i \in 1..Len(q) : q[i].rem <= ms})
    IN  SubSeq(q, 1, k) \o <<Timer(ms, cb, arg)>> \o SubSeq(q, k + 1, Len(q))

\* the callback the event loop runs next, if it is due
Due(cb) == afterQ # <<>> /\ Head(afterQ).rem = 0 /\ Head(afterQ).cb = cb

----------------------------------------------------------------------------
(* Inputs *)

Path == <<"s", "e", "e", "d", ".", "t", "x", "t">>

FileMissing == [exists |-> FALSE, readable |-> FALSE, contents |-> <<>>]
FileUnreadable == [exists |-> TRUE, readable |-> FALSE, contents |-> <<>>]
FileWith(c) == [exists |-> TRUE, readable |-> TRUE, contents |-> c]

IntArg(n) == [conv |-> TRUE, val |-> n]
\* a seed_delay_ms that int() rejects
NotAnInt == [conv |-> FALSE, val |-> 0]

ArgsFrom(Prompts, Files, EnvArgs, Shows, Delays) ==
    [skip_seed : BOOLEAN, seed_prompt : Prompts, seed_file : Files,
     seed_env : EnvArgs, show_seed : Shows, seed_delay : Delays]

\* inputs of the runs of the whole application: every combination of these seed
\* sources with skip-seed set, and the combinations of Scenarios with it unset
SchedPrompts == {None, Some(<<" ", "P">>)}
SchedFiles == {None, Some(Path)}
SchedFileStates == {FileMissing, FileWith(<<"F", "\n">>)}
SchedEnvs ==
    {[n \in EnvNames |-> IF n = DefaultEnvName THEN v ELSE None] : v \in {None, Some(<<"D">>)}}

NoEnv == [n \in EnvNames |-> None]
DefaultEnv(v) == [n \in EnvNames |-> IF n = DefaultEnvName THEN Some(v) ELSE None]

ArgsWith(prompt, file, show, delay) ==
    [skip_seed |-> FALSE, seed_prompt |-> prompt, seed_file |-> file, seed_env |-> None,
     show_seed |-> show, seed_delay |-> delay]

Args(prompt, file) == ArgsWith(prompt, file, FALSE, IntArg(250))

Scenario(a, f, e) == [a |-> a, f |-> f, e |-> e]

Scenarios ==
    { Scenario(Args(None, None), FileMissing, NoEnv),                       \* nothing supplied
      Scenario(Args(Some(<<" ">>), None), FileMissing, NoEnv),             \* blank direct text
      Scenario(Args(None, Some(Path)), FileWith(<<>>), DefaultEnv(<<"D">>)), \* empty seed file
      Scenario(Args(None, Some(Path)), FileMissing, NoEnv),                \* missing seed file
      Scenario(Args(None, Some(Path)), FileMissing, DefaultEnv(<<"D">>)),  \* missing file, env set
      Scenario(ArgsWith(None, Some(Path), TRUE, NotAnInt),
               FileWith(<<"F", "\n">>), DefaultEnv(<<"D">>)),              \* file and env, seed shown
      Scenario(ArgsWith(Some(<<"Q">>), None, FALSE, IntArg(0 - 50)), FileMissing, NoEnv), \* negative delay
      Scenario(Args(Some(<<" ", "P">>), Some(Path)), FileWith(<<"F", "\n">>), DefaultEnv(<<"D">>)) }

\* inputs of the runs that stop after start-up (resolver and constructor)
AllPrompts == {None, Some(<<>>), Some(<<" ">>), Some(<<" ", "P", " ">>)}
AllFiles == {None, Some(<<>>), Some(Path)}
AllFileStates == {FileMissing, FileUnreadable, FileWith(<<>>), FileWith(<<"F", "\n">>)}
AllEnvArgs == {None, Some(<<>>), Some(CustomEnvName)}
AllEnvs == [EnvNames -> {None, Some(<<>>), Some(<<"E">>)}]
AllDelays == {IntArg(250), IntArg(0), IntArg(0 - 50), NotAnInt}

NoWorker == [pc |-> "none", text |-> <<>>, n |-> 0]

NoHist == [fires |-> 0, started |-> 0, hides |-> 0, dialogs |-> 0, dones |-> 0,
           lookupErrors |-> 0, threadErrors |-> 0, rechecked |-> FALSE,
           checked |-> FALSE, elapsed |-> 0, stale |-> FALSE,
           launch |-> "none"]

\* the process before main() has run
Boot ==
    /\ pc = "main"
    /\ resolved = None
    /\ seed_text = <<>>
    /\ seed_delay_ms = 0
    /\ show_seed = FALSE
    /\ pending = FALSE
    /\ frontpage = "mounted"
    /\ streaming = FALSE
    /\ send_enabled = TRUE
    /\ transcript = <<>>
    /\ afterQ = <<>>
    /\ worker = NoWorker
    /\ chat = FALSE
    /\ hist = NoHist

Init ==
    /\ \/ /\ args \in ArgsFrom(SchedPrompts, SchedFiles, {None}, {FALSE}, {IntArg(250)})
          /\ args.skip_seed
          /\ fs \in SchedFileStates
          /\ env \in SchedEnvs
       \/ \E sc \in Scenarios : args = sc.a /\ fs = sc.f /\ env = sc.e
    /\ hasStartSeeding \in BOOLEAN
    /\ Boot

\* one seeded run for each outcome of the method lookup
InitSeeded ==
    /\ args = Args(Some(<<" ", "P">>), None)
    /\ fs = FileMissing
    /\ env = NoEnv
    /\ hasStartSeeding \in BOOLEAN
    /\ Boot

InitStartup ==
    /\ args \in ArgsFrom(AllPrompts, AllFiles, AllEnvArgs, BOOLEAN, AllDelays)
    /\ fs \in AllFileStates
    /\ env \in AllEnvs
    /\ hasStartSeeding \in BOOLEAN
    /\ Boot

----------------------------------------------------------------------------
(* Start-up: __main__ and ProgramsModernUI.__init__ *)

Max(a, b) == IF a >= b THEN a ELSE b

\* mutant: the delay is taken as given, without the clamp
DelayOfNoClamp(d) == IF d.conv THEN d.val ELSE FallbackDelayMs

\* lines 46-49: max(0, int(seed_delay_ms)), 250 when int() raises
DelayOf(d) == IF d.conv THEN Max(0, d.val) ELSE FallbackDelayMs

\* mutant: the seed text kept without trimming
SeedTextNoStrip(o) == OrEmpty(o)

\* line 45
SeedTextOf(o) == Strip(OrEmpty(o))

\* lines 53-65: what the constructor writes to the transcript
Announce(text, show) ==
    IF text # <<>>
    THEN IF show
         THEN <<Entry(BannerShown, "sys"), Entry(text \o Newline, "sys")>>
         ELSE <<Entry(BannerPlain, "sys")>>
    ELSE <<Entry(BannerTip, "sys")>>

\* lines 54-61: pending is set at construction exactly when a seed text is configured
PendingAtInit(text) == text # <<>>

\* lines 524-530: resolve the seed, construct the application, enter mainloop
Main ==
    /\ pc = "main"
    /\ pc' = "mainloop"
    /\ resolved' = ResolveSeed(args, fs, env)
    /\ seed_text' = SeedTextOf(resolved')
    /\ seed_delay_ms' = DelayOf(args.seed_delay)
    /\ show_seed' = args.show_seed
    /\ transcript' = Announce(seed_text', show_seed')
    /\ pending' = PendingAtInit(seed_text')
    /\ afterQ' = After(afterQ, SkinDelayMs, "skin", <<>>)
    /\ UNCHANGED <<inputs, frontpage, streaming, send_enabled, worker, chat, hist>>

----------------------------------------------------------------------------
(* Overlay dismissal and readiness check *)

Bump(h, f) == [h EXCEPT ![f] = @ + 1]

\* history: a readiness check has run
Checked(h) == [h EXCEPT !.checked = TRUE]

\* history: time since the first dismissal, counted until the first readiness check
Elapse(h, ms) == IF h.hides >= 1 /\ ~h.checked THEN [h EXCEPT !.elapsed = @ + ms] ELSE h

\* super()._hide_frontpage(): the launcher of the base class takes the overlay
\* down (unmounts or destroys it), or raises and leaves it as it is
BaseHideOutcomes == {"unmounted", "destroyed", "raises"}
BaseHide(fp, outcome) == IF outcome = "raises" THEN fp ELSE outcome

\* lines 306-311: the dismissal marks the seed pending whenever a seed text is configured
PendingAfterHide(text, p) == IF text # <<>> THEN TRUE ELSE p

\* mutant: the first readiness check is scheduled after the fixed backoff
QueueAfterHideBackoff(text, q, delay) ==
    IF text # <<>> THEN After(q, BackoffMs, "try", <<>>) ELSE q

\* lines 312-313: the first readiness check is scheduled after the configured delay
QueueAfterHide(text, q, delay) ==
    IF text # <<>> THEN After(q, Max(0, delay), "try", <<>>) ELSE q

\* _hide_frontpage: the finally clause runs whether or not the base call raised
HideFrontpage(outcome) ==
    /\ frontpage' = BaseHide(frontpage, outcome)
    /\ pending' = PendingAfterHide(seed_text, pending)
    /\ afterQ' = QueueAfterHide(seed_text, afterQ, seed_delay_ms)

\* a dismissal of the overlay by a launcher path of the base class
Dismiss ==
    /\ pc = "mainloop"
    /\ hist.hides < MaxHides
    /\ \E outcome \in BaseHideOutcomes : HideFrontpage(outcome)
    /\ hist' = Bump(hist, "hides")
    /\ UNCHANGED <<inputs, pc, resolved, config, streaming, send_enabled, transcript,
                   worker, chat>>

\* the rows of the program list and the program each row stands for (lines 253-257)
Rows == {<<"I001">>}
FpMapping == [iid \in Rows |-> <<"prog">>]

\* what the user has selected in the list: nothing, or one row
Selections == {None} \cup {Some(iid) : iid \in Rows}

\* _get_selected_program_name, lines 272-278
SelectedProgramName(sel) == IF ~sel.some THEN None ELSE Some(FpMapping[sel.val])

\* what Run Program has done since the overlay was last put up: nothing, showed
\* the dialog, or ran a program
Launched(h, what) == [h EXCEPT !.launch = what]

\* mutant: the program is run before the overlay is dismissed
RunSelectedProgramRunFirst ==
    /\ pc = "mainloop"
    /\ frontpage = "mounted"
    /\ hist.hides < MaxHides
    /\ \E sel \in Selections, outcome \in BaseHideOutcomes :
          /\ Truthy(SelectedProgramName(sel))
          /\ HideFrontpage(outcome)
          /\ hist' = Launched(Bump(hist, "hides"), "ran")
    /\ UNCHANGED <<inputs, pc, resolved, config, streaming, send_enabled, transcript,
                   worker, chat>>

\* _run_selected_program with a row selected, lines 295-296: dismiss, then run the
\* program; when the dismissal raises, the program is not run
RunSelectedProgram ==
    /\ pc = "mainloop"
    /\ frontpage = "mounted"
    /\ hist.hides < MaxHides
    /\ \E sel \in Selections, outcome \in BaseHideOutcomes :
          /\ Truthy(SelectedProgramName(sel))
          /\ HideFrontpage(outcome)
          /\ hist' = IF outcome = "raises" THEN Bump(hist, "hides")
                                           ELSE Launched(Bump(hist, "hides"), "ran")
    /\ UNCHANGED <<inputs, pc, resolved, config, streaming, send_enabled, transcript,
                   worker, chat>>

\* _run_selected_program with no row selected, lines 289-294: an info dialog,
\* nothing else
RunNothingSelected ==
    /\ pc = "mainloop"
    /\ frontpage = "mounted"
    /\ \E sel \in Selections : ~Truthy(SelectedProgramName(sel))
    /\ hist' = Launched(hist, "info")
    /\ UNCHANGED <<inputs, pc, resolved, config, pending, frontpage, streaming,
                   send_enabled, transcript, afterQ, worker, chat>>

\* the launcher of the base class puts the overlay back
ShowFrontpage ==
    /\ pc = "mainloop"
    /\ frontpage # "mounted"
    /\ frontpage' = "mounted"
    /\ hist' = Launched(hist, "none")
    /\ UNCHANGED <<inputs, pc, resolved, config, pending, streaming, send_enabled,
                   transcript, afterQ, worker, chat>>

\* lines 327-333: winfo_manager() names a geometry manager while the overlay is
\* mounted; it raises on a destroyed widget, which the code reads as not visible
OverlayActive(fp) == fp = "mounted"

\* mutant: the guard forgets the pending flag
MayFireSeedOnly(text, p) == text # <<>>

\* line 324: the "only once" guard
MayFire(text, p) == text # <<>> /\ p

\* mutant: the readiness check ignores the streaming flag
NotReadyOverlayOnly(fp, s) == OverlayActive(fp)

\* line 334
NotReady(fp, s) == OverlayActive(fp) \/ s

\* mutant: the seeding starts without setting the streaming flag
StartSeedingNoFlag(ok) ==
    IF streaming \/ seed_text = <<>>
    THEN UNCHANGED <<streaming, send_enabled, transcript, worker>>
         /\ hist' = Checked(Bump(hist, "fires"))
    ELSE /\ transcript' = Append(transcript, Entry(BotMarker, "bot"))
         /\ streaming' = streaming
         /\ send_enabled' = FALSE
         /\ worker' = IF ok THEN [pc |-> "running", text |-> seed_text, n |-> 0] ELSE worker
         /\ hist' = IF ok THEN Checked(Bump(Bump(hist, "fires"), "started"))
                          ELSE Checked(Bump(Bump(hist, "fires"), "threadErrors"))

\* _start_seeding, lines 445-454, when Thread.start() returns (ok) or raises
StartSeeding(ok) ==
    IF streaming \/ seed_text = <<>>
    THEN UNCHANGED <<streaming, send_enabled, transcript, worker>>
         /\ hist' = Checked(Bump(hist, "fires"))
    ELSE /\ transcript' = Append(transcript, Entry(BotMarker, "bot"))
         /\ streaming' = TRUE
         /\ send_enabled' = FALSE
         /\ worker' = IF ok THEN [pc |-> "running", text |-> seed_text, n |-> 0] ELSE worker
         /\ hist' = IF ok THEN Checked(Bump(Bump(hist, "fires"), "started"))
                          ELSE Checked(Bump(Bump(hist, "fires"), "threadErrors"))

\* line 343 when the lookup of self._start_seeding fails: AttributeError leaves the callback
StartSeedingMissing ==
    /\ hist' = Checked(Bump(Bump(hist, "fires"), "lookupErrors"))
    /\ UNCHANGED <<streaming, send_enabled, transcript, worker>>

\* _try_fire_welcome_seed, run by the event loop when its timer is due
TryFireNoop ==
    /\ Due("try")
    /\ ~MayFire(seed_text, pending)
    /\ afterQ' = Tail(afterQ)
    /\ hist' = Checked([hist EXCEPT !.stale = TRUE])
    /\ UNCHANGED <<inputs, pc, resolved, config, pending, frontpage, streaming,
                   send_enabled, transcript, worker, chat>>

\* mutant: a check that is not ready gives up instead of scheduling a recheck
TryFireRescheduleDrop ==
    /\ Due("try")
    /\ MayFire(seed_text, pending)
    /\ NotReady(frontpage, streaming)
    /\ afterQ' = Tail(afterQ)
    /\ hist' = Checked([hist EXCEPT !.rechecked = TRUE])
    /\ UNCHANGED <<inputs, pc, resolved, config, pending, frontpage, streaming,
                   send_enabled, transcript, worker, chat>>

\* mutant: the recheck is scheduled after the configured delay
TryFireRescheduleDelay ==
    /\ Due("try")
    /\ MayFire(seed_text, pending)
    /\ NotReady(frontpage, streaming)
    /\ afterQ' = After(Tail(afterQ), seed_delay_ms, "try", <<>>)
    /\ hist' = Checked([hist EXCEPT !.rechecked = TRUE])
    /\ UNCHANGED <<inputs, pc, resolved, config, pending, frontpage, streaming,
                   send_enabled, transcript, worker, chat>>

TryFireReschedule ==
    /\ Due("try")
    /\ MayFire(seed_text, pending)
    /\ NotReady(frontpage, streaming)
    /\ afterQ' = After(Tail(afterQ), BackoffMs, "try", <<>>)
    /\ hist' = Checked([hist EXCEPT !.rechecked = TRUE])
    /\ UNCHANGED <<inputs, pc, resolved, config, pending, frontpage, streaming,
                   send_enabled, transcript, worker, chat>>

TryFireFire ==
    /\ Due("try")
    /\ MayFire(seed_text, pending)
    /\ ~NotReady(frontpage, streaming)
    /\ afterQ' = Tail(afterQ)
    /\ pending' = FALSE
    /\ IF hasStartSeeding
       THEN \E ok \in BOOLEAN : StartSeeding(ok)
       ELSE StartSeedingMissing
    /\ UNCHANGED <<inputs, pc, resolved, config, frontpage, chat>>

\* _skin_legacy_chat_widgets: restyles widgets, changes nothing the protocol reads
SkinLegacyChatWidgets ==
    /\ Due("skin")
    /\ afterQ' = Tail(afterQ)
    /\ UNCHANGED <<inputs, pc, resolved, config, pending, frontpage, streaming,
                   send_enabled, transcript, worker, chat, hist>>

\* time passes until the next scheduled callback is due
Advance ==
    /\ afterQ # <<>>
    /\ Head(afterQ).rem > 0
    /\ afterQ' = [i \in 1..Len(afterQ) |-> [afterQ[i] EXCEPT !.rem = @ - Head(afterQ).rem]]
    /\ hist' = Elapse(hist, Head(afterQ).rem)
    /\ UNCHANGED <<inputs, pc, resolved, config, pending, frontpage, streaming,
                   send_enabled, transcript, worker, chat>>

----------------------------------------------------------------------------
(* Seed worker thread (_seed_worker) and the callbacks it hands to the UI thread *)

uiState == <<pending, frontpage, streaming, send_enabled, transcript>>

\* mutant: the token append is scheduled with a delay instead of after(0, ...)
WorkerTokenDelayed ==
    /\ worker.pc = "running"
    /\ worker.n < MaxTokens
    /\ worker' = [worker EXCEPT !.n = @ + 1]
    /\ afterQ' = After(afterQ, 1, "tok", Token(worker.n + 1))
    /\ UNCHANGED <<inputs, pc, resolved, config, uiState, chat, hist>>

\* mutant: the worker thread appends the token itself
WorkerTokenDirect ==
    /\ worker.pc = "running"
    /\ worker.n < MaxTokens
    /\ worker' = [worker EXCEPT !.n = @ + 1]
    /\ transcript' = Append(transcript, Entry(Token(worker.n + 1), "bot"))
    /\ UNCHANGED <<inputs, pc, resolved, config, pending, frontpage, streaming,
                   send_enabled, afterQ, chat, hist>>

\* line 461, on_token: the backend produced a token; its append is handed to the UI thread
WorkerToken ==
    /\ worker.pc = "running"
    /\ worker.n < MaxTokens
    /\ worker' = [worker EXCEPT !.n = @ + 1]
    /\ afterQ' = After(afterQ, 0, "tok", Token(worker.n + 1))
    /\ UNCHANGED <<inputs, pc, resolved, config, uiState, chat, hist>>

\* line 461: respond_stream returns
WorkerReturn ==
    /\ worker.pc = "running"
    /\ worker' = [worker EXCEPT !.pc = "finally"]
    /\ UNCHANGED <<inputs, pc, resolved, config, uiState, afterQ, chat, hist>>

\* line 462: respond_stream raises
WorkerRaise ==
    /\ worker.pc = "running"
    /\ worker' = [worker EXCEPT !.pc = "except"]
    /\ UNCHANGED <<inputs, pc, resolved, config, uiState, afterQ, chat, hist>>

\* line 469: self.after(0, err)
WorkerExcept ==
    /\ worker.pc = "except"
    /\ worker' = [worker EXCEPT !.pc = "finally"]
    /\ afterQ' = After(afterQ, 0, "err", <<>>)
    /\ UNCHANGED <<inputs, pc, resolved, config, uiState, chat, hist>>

\* mutant: the thread ends without scheduling done()
WorkerFinallyNoDone ==
    /\ worker.pc = "finally"
    /\ worker' = [worker EXCEPT !.pc = "ended"]
    /\ UNCHANGED <<inputs, pc, resolved, config, uiState, afterQ, chat, hist>>

\* line 478: self.after(0, done); the thread ends
WorkerFinally ==
    /\ worker.pc = "finally"
    /\ worker' = [worker EXCEPT !.pc = "ended"]
    /\ afterQ' = After(afterQ, 0, "done", <<>>)
    /\ UNCHANGED <<inputs, pc, resolved, config, uiState, chat, hist>>

\* line 461: self._append(tok, "bot") on the UI thread
AppendToken ==
    /\ Due("tok")
    /\ afterQ' = Tail(afterQ)
    /\ transcript' = Append(transcript, Entry(Head(afterQ).arg, "bot"))
    /\ UNCHANGED <<inputs, pc, resolved, config, pending, frontpage, streaming,
                   send_enabled, worker, chat, hist>>

\* err(), lines 463-468: the notice, then the error dialog
ErrCallback ==
    /\ Due("err")
    /\ afterQ' = Tail(afterQ)
    /\ transcript' = Append(transcript, Entry(ErrorNotice, "sys"))
    /\ hist' = Bump(hist, "dialogs")
    /\ UNCHANGED <<inputs, pc, resolved, config, pending, frontpage, streaming,
                   send_enabled, worker, chat>>

\* lines 472-475: the effects of done() on transcript, flag and send control
DoneTranscript(t) == Append(t, Entry(Newline, "bot"))
DoneStreaming == FALSE
DoneSendEnabled == TRUE

\* done(), lines 471-477
DoneCallback ==
    /\ Due("done")
    /\ afterQ' = Tail(afterQ)
    /\ transcript' = DoneTranscript(transcript)
    /\ streaming' = DoneStreaming
    /\ send_enabled' = DoneSendEnabled
    /\ hist' = Bump(hist, "dones")
    /\ UNCHANGED <<inputs, pc, resolved, config, pending, frontpage, worker, chat>>

----------------------------------------------------------------------------
(* Normal chat generation of the base class, sharing the streaming flag *)

ChatStart ==
    /\ pc = "mainloop"
    /\ ~streaming
    /\ chat' = TRUE
    /\ streaming' = TRUE
    /\ send_enabled' = FALSE
    /\ UNCHANGED <<inputs, pc, resolved, config, pending, frontpage, transcript,
                   afterQ, worker, hist>>

ChatDone ==
    /\ chat
    /\ chat' = FALSE
    /\ streaming' = FALSE
    /\ send_enabled' = TRUE
    /\ UNCHANGED <<inputs, pc, resolved, config, pending, frontpage, transcript,
                   afterQ, worker, hist>>

----------------------------------------------------------------------------
(* Specifications *)

UIStep ==
    \/ TryFireNoop
    \/ TryFireReschedule
    \/ TryFireFire
    \/ SkinLegacyChatWidgets
    \/ AppendToken
    \/ ErrCallback
    \/ DoneCallback

WorkerStep ==
    \/ WorkerToken
    \/ WorkerReturn
    \/ WorkerRaise
    \/ WorkerExcept
    \/ WorkerFinally

Next ==
    \/ Main
    \/ Dismiss
    \/ RunSelectedProgram
    \/ RunNothingSelected
    \/ ShowFrontpage
    \/ ChatStart
    \/ ChatDone
    \/ Advance
    \/ UIStep
    \/ WorkerStep

\* the whole application
Spec == Init /\ [][Next]_vars

\* start-up only, over every combination of resolver and constructor inputs
SpecStartup == InitStartup /\ [][Main]_vars

\* the event loop runs due callbacks, time passes, and the worker thread and the
\* backend call make progress
\* Run Program is left to Dismiss here: on the seeding state it acts as a dismissal
\* (with a row selected) or not at all (without one)
NextLive ==
    \/ Main
    \/ Dismiss
    \/ ShowFrontpage
    \/ ChatStart
    \/ ChatDone
    \/ Advance
    \/ UIStep
    \/ WorkerStep

LiveSpec ==
    InitSeeded /\ [][NextLive]_vars /\ WF_vars(UIStep) /\ WF_vars(WorkerStep) /\ WF_vars(Advance)

----------------------------------------------------------------------------
(* Properties *)

AllWhitespace(s) == \A i \in 1..Len(s) : s[i] \in Whitespace

\* the environment variable the resolver would read
ConsultedEnv == env[IF Truthy(args.seed_env) THEN args.seed_env.val ELSE DefaultEnvName]

\* C1: over any sequence of dismissals, readiness checks and worker completions,
\* pending goes from true to false at most once and is never true again afterwards,
\* so at most one welcome-seed generation is started.
C1_FiresAtMostOnce ==
    /\ hist.fires <= 1
    /\ hist.started <= 1
    /\ (hist.fires >= 1 => ~pending)

\* C2: the firing step (pending set to false, seeding started) is taken only when
\* the overlay is not visible and the streaming flag is false.
C2_FiresOnlyWhenReady ==
    [][hist'.fires > hist.fires => (frontpage # "mounted" /\ ~streaming)]_vars

\* a seeding fired after at least one forced recheck and a repeated dismissal
C2_Witness == hist.fires >= 1 /\ hist.rechecked /\ hist.hides >= 2

\* C3: when a readiness check passes, the same UI step sets pending false and
\* streaming true, disables the send control, appends "Bot: " to the transcript and
\* dispatches exactly one worker that calls the backend with the seed text.  (Stated
\* for the steps in which Thread.start() does not raise.)
C3_FiringStep ==
    [][(hist'.fires > hist.fires /\ hist'.threadErrors = hist.threadErrors) =>
          /\ ~pending'
          /\ streaming'
          /\ ~send_enabled'
          /\ transcript' = Append(transcript, Entry(BotMarker, "bot"))
          /\ hist'.started = hist.started + 1
          /\ worker' = [pc |-> "running", text |-> seed_text, n |-> 0]]_vars

\* C4: with the skip-seed flag set the resolver returns no seed, pending is never
\* true and no seeding ever fires, whatever the other seed sources hold.
C4_SkipSeedNeverFires ==
    args.skip_seed => (resolved = None /\ seed_text = <<>> /\ ~pending /\ hist.fires = 0)

\* skip-seed with direct text, a readable seed file and the environment variable all
\* supplied, after two dismissals and every scheduled callback
C4_Witness ==
    /\ args.skip_seed
    /\ Truthy(args.seed_prompt)
    /\ Truthy(args.seed_file) /\ fs.exists /\ fs.contents # <<>>
    /\ Truthy(ConsultedEnv)
    /\ hist.hides >= 2
    /\ afterQ = <<>>

C6_EmptySeedNeverPending ==
    (~resolved.some \/ AllWhitespace(resolved.val)) => (~pending /\ hist.fires = 0)

\* a whitespace-only seed text, after two dismissals and every scheduled callback
C6_Witness ==
    /\ pc = "mainloop"
    /\ resolved.some /\ resolved.val # <<>> /\ AllWhitespace(resolved.val)
    /\ hist.hides >= 2
    /\ afterQ = <<>>

\* C7: every seeding that has fired (streaming set, worker dispatched) eventually
\* reaches Done, whether the backend call returns or raises; the completion appends
\* the trailing newline, clears streaming and re-enables the send control.
C7_FiredSeedingCompletes ==
    /\ \A k \in 1..MaxHides : (hist.started >= k) ~> (hist.dones >= k)
    /\ [][hist'.dones > hist.dones =>
            /\ transcript' = Append(transcript, Entry(Newline, "bot"))
            /\ ~streaming'
            /\ send_enabled']_vars

\* a seeding whose backend call raised has completed
C7_Witness ==
    /\ hist.started = 1 /\ hist.dialogs = 1 /\ hist.dones = 1
    /\ ~streaming /\ send_enabled
    /\ transcript[Len(transcript)] = Entry(Newline, "bot")

\* positions of the transcript
IsNotice(i) == transcript[i] = Entry(ErrorNotice, "sys")
IsMarker(i) == transcript[i] = Entry(BotMarker, "bot")
\* the bot-turn marker that opens the generation position i belongs to (0 if none)
MarkerBefore(i) ==
    LET ms == {j \in 1..i : IsMarker(j)}
    IN  IF ms = {} THEN 0 ELSE CHOOSE j \in ms : \A m \in ms : m <= j
InLastGeneration(i) == \A j \in i..Len(transcript) : ~IsMarker(j)

C9_DispatchFailureRecovers ==
    (hist.threadErrors > 0 /\ afterQ = <<>> /\ ~chat) => (~streaming /\ send_enabled)

\* C10 as stated: no direct text and a seed-file path naming a missing file give no
\* seed, pending false and an idle scheduler, whatever the environment holds.
C10_MissingFileAsStated ==
    (pc = "mainloop" /\ ~Truthy(args.seed_prompt) /\ Truthy(args.seed_file) /\ ~fs.exists) =>
        (resolved = None /\ ~pending /\ hist.fires = 0)

\* C10 amended: a missing seed file falls through to the environment variable; there
\* is no seed, pending is false and the scheduler stays idle, when that variable is
\* unset or empty (or skip-seed is set), and its value is the seed otherwise.
C10_MissingFile ==
    (pc = "mainloop" /\ ~Truthy(args.seed_prompt) /\ Truthy(args.seed_file) /\ ~fs.exists) =>
        IF ~args.skip_seed /\ Truthy(ConsultedEnv)
        THEN resolved = ConsultedEnv
        ELSE resolved = None /\ ~pending /\ hist.fires = 0

\* a missing seed file with nothing in the environment, after two dismissals and
\* every scheduled callback
C10_Witness ==
    /\ pc = "mainloop"
    /\ ~args.skip_seed
    /\ ~Truthy(args.seed_prompt) /\ Truthy(args.seed_file) /\ ~fs.exists
    /\ ~Truthy(ConsultedEnv)
    /\ resolved = None
    /\ hist.hides >= 2
    /\ afterQ = <<>>

\* C11: when no direct text is given and reading or decoding an existing seed file
\* fails, the error is logged and the resolver's result is no seed, whatever the
\* environment variables hold.
C11_ReadFailureGivesNoSeed ==
    (pc = "mainloop" /\ ~args.skip_seed /\ ~Truthy(args.seed_prompt)
        /\ Truthy(args.seed_file) /\ fs.exists /\ ~fs.readable) =>
        (ReadErrorLogged(args, fs) /\ resolved = None)

\* no direct text and no seed file that is given, exists and can be read
NoTextNoUsableFile ==
    /\ ~Truthy(args.seed_prompt)
    /\ ~(Truthy(args.seed_file) /\ fs.exists /\ fs.readable)

\* C12: with skip-seed unset and neither direct text nor a usable seed file, exactly
\* one environment variable is consulted, the one named by --seed-env if given, else
\* CHATBOT_SEED_PROMPT; its value is returned when non-empty and otherwise there is
\* no seed (no fall back from a custom name to CHATBOT_SEED_PROMPT).
C12_OneEnvVarConsulted ==
    (pc = "mainloop" /\ ~args.skip_seed /\ NoTextNoUsableFile) =>
        LET name == IF args.seed_env.some /\ args.seed_env.val # <<>>
                    THEN args.seed_env.val ELSE <<"CHATBOT_SEED_PROMPT">>
        IN  IF env[name].some /\ env[name].val # <<>>
            THEN resolved = env[name]
            ELSE resolved = None

\* a custom name whose variable is unset or empty while CHATBOT_SEED_PROMPT is set:
\* no seed
C12_Witness ==
    /\ pc = "mainloop"
    /\ ~args.skip_seed
    /\ NoTextNoUsableFile
    /\ args.seed_env = Some(CustomEnvName)
    /\ ~Truthy(env[CustomEnvName])
    /\ Truthy(env[DefaultEnvName])
    /\ resolved = None

\* C13: no readiness check and no firing occurs before the first dismissal; the
\* first readiness check after the dismissal at time t runs at t + delayMs, so firing
\* never occurs earlier than t + delayMs, and occurs exactly at t + delayMs when the
\* overlay is hidden and no stream is active at that time.
C13_FirstCheckAfterDelay ==
    [][/\ hist.hides = 0 => (~hist.checked /\ hist.fires = 0)
       /\ (hist'.checked /\ ~hist.checked) =>
             /\ hist.hides >= 1
             /\ hist.elapsed = seed_delay_ms
             /\ (frontpage # "mounted" /\ ~streaming) => hist'.fires = hist.fires + 1
       /\ hist'.fires > hist.fires =>
             (hist.hides >= 1 /\ hist.elapsed >= seed_delay_ms)]_vars

\* the seed fired at the first check, 250 after the only dismissal
C13_Witness ==
    /\ hist.hides = 1
    /\ hist.checked /\ ~hist.rechecked
    /\ hist.elapsed = 250
    /\ hist.fires = 1

\* a seed worker has been dispatched and its completion handler has not run yet
SeedInFlight == hist.started > hist.dones

\* C14: in every interleaving of the UI thread, the seed worker and a normal chat
\* generation sharing the streaming flag, at most one generation is running: a seed
\* worker is never started while a chat generation is in flight, and the flag stays
\* true from the dispatch of the seed worker until its completion handler runs.
C14_OneGenerationAtATime ==
    /\ hist.started - hist.dones \in {0, 1}
    /\ ~(chat /\ SeedInFlight)
    /\ SeedInFlight => streaming
    /\ worker.pc \in {"running", "except", "finally"} => SeedInFlight

\* the seed worker is streaming tokens after a check had to be repeated
C14_Witness ==
    /\ SeedInFlight /\ worker.pc = "running" /\ worker.n >= 1
    /\ streaming /\ ~chat
    /\ hist.rechecked

\* callbacks that are due now
DueCount(q) == Cardinality({i \in 1..Len(q) : q[i].rem = 0})

\* the step is the event loop running the callback at the head of the queue
EventLoopStep == DueCount(afterQ') < DueCount(afterQ)

\* C15: a readiness check that runs when pending is false (or no seed text is
\* configured) is a no-op: it changes neither pending, streaming, transcript nor
\* send control, dispatches no worker and schedules no further recheck.
C15_StaleCheckIsNoop ==
    [][(Due("try") /\ (seed_text = <<>> \/ ~pending) /\ EventLoopStep) =>
          /\ afterQ' = Tail(afterQ)
          /\ pending' = pending
          /\ streaming' = streaming
          /\ transcript' = transcript
          /\ send_enabled' = send_enabled
          /\ worker' = worker
          /\ hist'.fires = hist.fires
          /\ hist'.started = hist.started]_vars

\* a stale check has run after the seed had fired, and nothing is scheduled any more
C15_Witness ==
    /\ hist.stale
    /\ hist.fires = 1
    /\ ~pending
    /\ afterQ = <<>>

\* q without its i-th element
RemoveAt(q, i) == SubSeq(q, 1, i - 1) \o SubSeq(q, i + 1, Len(q))

\* C16: a readiness check that finds the overlay visible or streaming true leaves
\* pending true, leaves streaming, the transcript and the send control unchanged,
\* dispatches no worker, and schedules exactly one recheck 300 ms later, whatever
\* the configured delay is.
C16_NotReadyReschedules ==
    [][(/\ Due("try") /\ seed_text # <<>> /\ pending
        /\ (frontpage = "mounted" \/ streaming)
        /\ EventLoopStep) =>
          /\ pending' /\ hist'.fires = hist.fires /\ hist'.started = hist.started
          /\ streaming' = streaming
          /\ transcript' = transcript
          /\ send_enabled' = send_enabled
          /\ worker' = worker
          /\ \E i \in 1..Len(afterQ') :
                /\ afterQ'[i] = Timer(300, "try", <<>>)
                /\ RemoveAt(afterQ', i) = Tail(afterQ)]_vars

\* with a configured delay of 0 a check was deferred and its recheck is waiting
C16_Witness ==
    /\ seed_delay_ms = 0
    /\ hist.rechecked /\ pending /\ hist.fires = 0
    /\ \E i \in 1..Len(afterQ) : afterQ[i].cb = "try" /\ afterQ[i].rem > 0

\* position i of the transcript holds a token of the backend
IsToken(i) ==
    /\ transcript[i].tag = "bot"
    /\ \E k \in 1..MaxTokens : transcript[i].text = Token(k)

\* the entry appended last, when it is a token, is the first token right behind the
\* marker of its bot turn, or the token produced next after the one before it
LastTokenInOrder ==
    LET n == Len(transcript)
    IN  (n >= 1 /\ IsToken(n)) =>
            /\ n >= 2
            /\ \/ IsMarker(n - 1) /\ transcript[n].text = Token(1)
               \/ /\ IsToken(n - 1)
                  /\ Len(transcript[n].text) = Len(transcript[n - 1].text) + 1

\* C17: the seed worker thread never changes the transcript, the streaming flag or
\* the send control itself: token appends, the error notice, the trailing newline,
\* clearing streaming and re-enabling the send control happen only in callbacks the
\* UI thread runs and the worker merely enqueues; tokens are appended with the bot
\* tag in the order produced.
C17_WorkerOnlyEnqueues ==
    [][/\ (worker' # worker /\ hist'.fires = hist.fires) =>
              /\ UNCHANGED <<pending, frontpage, streaming, send_enabled, transcript>>
              /\ Len(afterQ') = Len(afterQ) + 1 \/ afterQ' = afterQ
       /\ (pc = "mainloop" /\ transcript' # transcript) =>
              /\ EventLoopStep
              /\ Len(transcript') = Len(transcript) + 1
              /\ SubSeq(transcript', 1, Len(transcript)) = transcript
              /\ LastTokenInOrder'
       /\ (hist'.dones > hist.dones \/ hist'.dialogs > hist.dialogs) =>
              (EventLoopStep /\ worker' = worker)]_vars

\* the worker produced every token, then failed; all appends, the notice and the
\* completion were made by the UI thread
C17_Witness ==
    /\ hist.dones = 1 /\ hist.dialogs = 1
    /\ worker.n = MaxTokens
    /\ ~streaming /\ send_enabled
    /\ \E i \in 1..Len(transcript) : IsToken(i) /\ transcript[i].text = Token(MaxTokens)

\* C18: with a non-empty seed configured, if the overlay is dismissed and from some
\* point on stays hidden while streaming stays false, then, the event loop running
\* every due callback, the scheduler eventually leaves the pending state: pending
\* is false and the firing step has been taken.
C18_EventuallyFires ==
    (/\ <>(seed_text # <<>> /\ hist.hides >= 1)
     /\ <>[](frontpage # "mounted" /\ ~streaming)) =>
        <>(~pending /\ hist.fires >= 1)

\* the seed fired after at least one check had found the UI not ready
C18_Witness ==
    /\ seed_text # <<>>
    /\ hist.rechecked
    /\ hist.fires >= 1 /\ ~pending
    /\ frontpage # "mounted" /\ ~streaming

\* C19: Run Program with no row selected leaves the overlay visible, sends no
\* dismissal signal, schedules no readiness check and runs no program; with a row
\* selected it dismisses the overlay (the dismissal that schedules the seed check)
\* before it asks for the program of that row to be run.
C19_RunProgram ==
    [][/\ (hist'.launch = "info" /\ hist.launch # "info") =>
              /\ frontpage = "mounted" /\ frontpage' = "mounted"
              /\ hist'.hides = hist.hides
              /\ afterQ' = afterQ
              /\ pending' = pending
       /\ (hist'.launch = "ran" /\ hist.launch # "ran") =>
              /\ frontpage = "mounted" /\ frontpage' # "mounted"
              /\ hist'.hides = hist.hides + 1
              /\ IF seed_text # <<>>
                 THEN /\ pending'
                      /\ \E i \in 1..Len(afterQ') :
                            /\ afterQ'[i] = Timer(seed_delay_ms, "try", <<>>)
                            /\ RemoveAt(afterQ', i) = afterQ
                 ELSE afterQ' = afterQ /\ pending' = pending]_vars

\* a program was run from the overlay: the overlay is down and the seed check of
\* that dismissal is waiting
C19_Witness ==
    /\ hist.launch = "ran"
    /\ hist.hides = 1
    /\ frontpage # "mounted"
    /\ pending
    /\ \E i \in 1..Len(afterQ) : afterQ[i].cb = "try"

\* the text has no white space at either end
Trimmed(t) == t = <<>> \/ (t[1] \notin Whitespace /\ t[Len(t)] \notin Whitespace)

\* C20: the seed configuration (trimmed text, show flag, delay) is fixed by the
\* constructor and unchanged by every later operation, and the delay is never
\* negative: a negative delay is clamped to 0 and a value that cannot be converted
\* to an integer becomes 250.
C20_ConfigurationFixed ==
    [][/\ pc = "mainloop" =>
              (seed_text' = seed_text /\ show_seed' = show_seed
                  /\ seed_delay_ms' = seed_delay_ms)
       /\ pc' = "mainloop" =>
              /\ Trimmed(seed_text')
              /\ show_seed' = args.show_seed
              /\ seed_delay_ms' >= 0
              /\ (args.seed_delay.conv /\ args.seed_delay.val < 0) => seed_delay_ms' = 0
              /\ (args.seed_delay.conv /\ args.seed_delay.val >= 0) =>
                     seed_delay_ms' = args.seed_delay.val
              /\ ~args.seed_delay.conv => seed_delay_ms' = 250]_vars

\* started with a negative delay, the application has been through a dismissal, a
\* firing and a completed seeding, and the delay is the clamped 0
C20_Witness ==
    /\ args.seed_delay.conv /\ args.seed_delay.val < 0
    /\ seed_delay_ms = 0
    /\ seed_text # <<>>
    /\ hist.hides >= 1 /\ hist.fires >= 1 /\ hist.dones >= 1

====
